---- MODULE Spec2Model ----
(***************************************************************************)
(* Model of transmission-exporter: the Prometheus collector                *)
(* (collector/collector.go) and the handler wiring of exporter.go.         *)
(*                                                                         *)
(* A scrape is one HTTP request served by the handler newHandler builds:   *)
(* the registry calls Collect with a fresh channel, Collect starts one     *)
(* goroutine per sub-collection, waits on a sync.WaitGroup and returns;    *)
(* the handler then answers with a status.  The registry drains the        *)
(* channel while Collect runs, so a send completes as soon as the sender   *)
(* reaches it; out[s] is the multiset of what scrape s's channel received. *)
(***************************************************************************)
EXTENDS Integers, Sequences, FiniteSets, Bags, TLC

VARIABLES
    handler,    \* "none" | "installed" | "failed": what newHandler returned
    registered, \* descriptors the registry received from Describe at Register
    collector,  \* the fields of the TransmissionCollector (nil before it is built)
    proc,       \* position of main: "starting", "handled", "serving", or dead
    described,  \* what the latest call of Describe has sent on its channel so far
    dpc,        \* position of a Describe call: 0 none running, k before its k-th send
    prev,       \* prev[s]: the sub-collections that succeeded in the scrape before
    cpc,        \* cpc[s]: position of scrape s's handler / Collect call
    idx,        \* idx[s]: position of Collect's loop over fns (1-based)
    wg,         \* wg[s]: counter of Collect's sync.WaitGroup
    gpc,        \* gpc[s][g]: position of the goroutine running sub-collection g
    loc,        \* loc[s][g]: what g's upstream query returned (err, value)
    out,        \* out[s]: bag of metrics received on the channel of scrape s
    logs,       \* logs[s]: bag of records written to t.logger during scrape s
    calls,      \* calls[s][g]: upstream queries g has issued in scrape s
    started,    \* started[s][g]: goroutines started for g in scrape s
    late,       \* late[s]: a send happened while Collect was not running
    status      \* status[s]: HTTP status of the last answer (0: none yet)

vars == <<handler, registered, collector, proc, described, dpc, prev, cpc, idx, wg,
          gpc, loc, out, logs, calls, started, late, status>>

\* What main builds before it serves, and Describe's output.
process == <<handler, registered, collector, proc, described, dpc>>

----------------------------------------------------------------------------
(* Bounds *)

\* Number of scrape handlers that may run at the same time.
NumScrapes == 2
\* Largest torrent count the upstream reports.
MaxTorrents == 1
\* Largest byte total the upstream reports.
MaxBytes == 1

Scrapes == 1..NumScrapes

----------------------------------------------------------------------------
(* The Collector: descriptors and sub-collections *)

\* The six *prometheus.Desc fields of TransmissionCollector.
Descs == {"portOpenDesc", "turtleModeDesc", "activeTorrents", "pausedTorrents",
          "downloadedBytesTotal", "uploadedBytesTotal"}

\* A Describe that leaves out the descriptor of a metric the upstream failed
\* to deliver in some scrape.
DescribeByUpstream ==
    IF \E s \in Scrapes : loc[s]["collectTurtleMode"].err
      THEN <<"portOpenDesc">>
      ELSE <<"portOpenDesc", "turtleModeDesc">>
\* The descriptors Describe sends on its channel, in order.
Describe == <<"portOpenDesc", "turtleModeDesc">>

\* fns: the sub-collections Collect runs, in the order of the slice.
fns == <<"collectPortOpen", "collectTurtleMode", "collectSessionStats">>

G == {fns[k] : k \in 1..Len(fns)}

\* The wrong count a WaitGroup would get from an off-by-one Add.
WgAddShort == Len(fns) - 1
\* wg.Add(len(fns))
WgAdd == Len(fns)

\* float64(n) of an integer n: exact for every |n| < 2^53, and all values of
\* the model are far below that.
Float64(n) == n

\* prometheus.MustNewConstMetric(desc, prometheus.GaugeValue, v): a valid sample.
MustNewConstMetric(desc, v) == [desc |-> desc, valid |-> TRUE, val |-> v]

\* A go-kit log record at the given level.
LogRecord(lvl, msg) == [level |-> lvl, msg |-> msg]

\* A gauge value that is not a boolean encoding.
BoolValWrong(b) == IF b THEN 2 ELSE 0
\* val := 0.; if b { val = 1. }
BoolVal(b) == IF b THEN 1 ELSE 0

\* What the error branch of collectPortOpen sends on ch: nothing.
portErrSends == EmptyBag
\* What the error branch of collectTurtleMode sends on ch: nothing.
turtleErrSends == EmptyBag
\* What the error branch of collectSessionStats sends on ch: nothing.
statsErrSends == EmptyBag

\* An error branch that calls the upstream again.
errRetry == "spawned"
\* Where a sub-collection goes after its error branch: it returns.
errReturn == "ret"

\* transmission.SessionStats as far as the collector reads it: any torrent
\* counts up to MaxTorrents, each byte total zero or MaxBytes.
StatsInputs == [ActiveTorrents : 0..MaxTorrents, PausedTorrents : 0..MaxTorrents,
                Downloaded : {0, MaxBytes}, Uploaded : {0, MaxBytes}]

ZeroStats == [ActiveTorrents |-> 0, PausedTorrents |-> 0,
              Downloaded |-> 0, Uploaded |-> 0]

\* The statistics every query returns when scrapes run side by side.
OneStats == [ActiveTorrents |-> 1, PausedTorrents |-> 0,
             Downloaded |-> 1, Uploaded |-> 0]

\* The four sends with the two byte totals under each other's descriptor.
statsSendsSwapped(st) ==
    << MustNewConstMetric("activeTorrents", Float64(st.ActiveTorrents)),
       MustNewConstMetric("pausedTorrents", Float64(st.PausedTorrents)),
       MustNewConstMetric("downloadedBytesTotal", Float64(st.Uploaded)),
       MustNewConstMetric("uploadedBytesTotal", Float64(st.Downloaded)) >>
\* The four sends of collectSessionStats, in program order.
statsSends(st) ==
    << MustNewConstMetric("activeTorrents", Float64(st.ActiveTorrents)),
       MustNewConstMetric("pausedTorrents", Float64(st.PausedTorrents)),
       MustNewConstMetric("downloadedBytesTotal", Float64(st.Downloaded)),
       MustNewConstMetric("uploadedBytesTotal", Float64(st.Uploaded)) >>

\* Go zero values of the query results before the call returns.
ZeroLoc == [collectPortOpen |-> [err |-> FALSE, val |-> FALSE],
            collectTurtleMode |-> [err |-> FALSE, val |-> FALSE],
            collectSessionStats |-> [err |-> FALSE, val |-> ZeroStats]]

----------------------------------------------------------------------------
(* The handler of exporter.go *)

\* Registry.Gather reports an error for an invalid metric and for a metric
\* collected twice with the same name and labels.
GatherError(b) ==
    \E m \in BagToSet(b) : ~m.valid \/ CopiesIn(m, b) > 1
       \/ \E n \in BagToSet(b) : n # m /\ n.desc = m.desc

\* promhttp.HandlerFor(.., HandlerOpts{ErrorHandling: HTTPErrorOnError}):
\* 500 on the first gather error, 200 otherwise.
HandlerStatus(b) == IF GatherError(b) THEN 500 ELSE 200

\* The zero value of the collector pointer before NewTransmissionCollector.
NilCollector == [client |-> "nil", logger |-> "nil", descs |-> {}]

\* NewTransmissionCollector(client, logger): the struct it returns.
NewTransmissionCollector == [client |-> "trans", logger |-> "logger", descs |-> Descs]

\* The error NewTransmissionCollector returns: always nil.
NewTransmissionCollectorErr == FALSE

Init ==
    /\ handler = "none"
    /\ registered = {}
    /\ collector = NilCollector
    /\ proc = "starting"
    /\ described = <<>>
    /\ dpc = 0
    /\ prev = [s \in Scrapes |-> {}]
    /\ cpc = [s \in Scrapes |-> "idle"]
    /\ idx = [s \in Scrapes |-> 1]
    /\ wg = [s \in Scrapes |-> 0]
    /\ gpc = [s \in Scrapes |-> [g \in G |-> "idle"]]
    /\ loc = [s \in Scrapes |-> ZeroLoc]
    /\ out = [s \in Scrapes |-> EmptyBag]
    /\ logs = [s \in Scrapes |-> EmptyBag]
    /\ calls = [s \in Scrapes |-> [g \in G |-> 0]]
    /\ started = [s \in Scrapes |-> [g \in G |-> 0]]
    /\ late = [s \in Scrapes |-> FALSE]
    /\ status = [s \in Scrapes |-> 0]

\* A must that drops the error and hands the nil handler on.
mustIgnoresErr(err) == "handled"
\* must(h, err): panic on an error, else the handler goes to http.Handle.
must(err) == IF err THEN "panicked" ELSE "handled"

\* main: http.Handle(path, must(newHandler(url, logger))).  newHandler returns
\* an error when transmission.New fails (newErr), when NewTransmissionCollector
\* fails (tcErr) or when Register fails (regErr).  Register runs Describe to
\* its end, receiving both sends, before it decides, and keeps the descriptors
\* when it succeeds; nothing else runs in the process at that time.
newHandler(newErr, tcErr, regErr) ==
    /\ proc = "starting"
    /\ handler = "none"
    /\ handler' = IF newErr \/ tcErr \/ regErr THEN "failed" ELSE "installed"
    /\ collector' = IF newErr \/ tcErr THEN collector ELSE NewTransmissionCollector
    /\ registered' = IF newErr \/ tcErr \/ regErr THEN registered
                      ELSE {Describe[k] : k \in 1..Len(Describe)}
    /\ described' = IF newErr \/ tcErr THEN described ELSE Describe
    /\ proc' = must(newErr \/ tcErr \/ regErr)
    /\ UNCHANGED <<dpc, prev, cpc, idx, wg, gpc, loc, out, logs, calls,
                   started, late, status>>

\* main: web.ListenAndServe(server, ..) starts serving, or fails and the
\* process exits with status 1.
ListenAndServe(ok) ==
    /\ proc = "handled"
    /\ proc' = IF ok THEN "serving" ELSE "exited"
    /\ UNCHANGED <<handler, registered, collector, described, dpc, prev, cpc, idx,
                   wg, gpc, loc, out, logs, calls, started, late, status>>

\* A call of t.Describe(ch) by whoever holds the registered collector of the
\* running process begins, with a channel that has received nothing yet.
DescribeCall ==
    /\ proc \in {"handled", "serving"}
    /\ collector # NilCollector
    /\ dpc = 0
    /\ described' = <<>>
    /\ dpc' = 1
    /\ UNCHANGED <<handler, registered, collector, proc, prev, cpc, idx, wg, gpc,
                   loc, out, logs, calls, started, late, status>>

\* One send of Describe: ch <- t.portOpenDesc, then ch <- t.turtleModeDesc;
\* the call returns after the last one.  Other goroutines run between the two.
DescribeSend ==
    /\ dpc \in 1..Len(Describe)
    /\ described' = Append(described, Describe[dpc])
    /\ dpc' = IF dpc = Len(Describe) THEN 0 ELSE dpc + 1
    /\ UNCHANGED <<handler, registered, collector, proc, prev, cpc, idx, wg, gpc,
                   loc, out, logs, calls, started, late, status>>

\* A Collect that keeps what the scrape before left behind: the entries of the
\* earlier scrape are still there when the new one emits.
CollectKeepsState(s) ==
    /\ proc = "serving"
    /\ cpc[s] = "idle"
    /\ cpc' = [cpc EXCEPT ![s] = "loop"]
    /\ idx' = [idx EXCEPT ![s] = 1]
    /\ wg' = [wg EXCEPT ![s] = WgAdd]
    /\ gpc' = [gpc EXCEPT ![s] = [g \in G |-> "idle"]]
    /\ loc' = [loc EXCEPT ![s] = ZeroLoc]
    /\ out' = out
    /\ logs' = [logs EXCEPT ![s] = EmptyBag]
    /\ calls' = [calls EXCEPT ![s] = [g \in G |-> 0]]
    /\ started' = [started EXCEPT ![s] = [g \in G |-> 0]]
    /\ late' = [late EXCEPT ![s] = FALSE]
    /\ status' = [status EXCEPT ![s] = 0]
    /\ prev' = [prev EXCEPT ![s] =
                  {g \in G : gpc[s][g] = "done" /\ ~loc[s][g].err}]
    /\ UNCHANGED process
\* A scrape request reaches the handler; the registry calls Collect with a
\* new channel: the locals of the call are fresh and wg.Add(len(fns)) runs.
Collect(s) ==
    /\ proc = "serving"
    /\ cpc[s] = "idle"
    /\ cpc' = [cpc EXCEPT ![s] = "loop"]
    /\ idx' = [idx EXCEPT ![s] = 1]
    /\ wg' = [wg EXCEPT ![s] = WgAdd]
    /\ gpc' = [gpc EXCEPT ![s] = [g \in G |-> "idle"]]
    /\ loc' = [loc EXCEPT ![s] = ZeroLoc]
    /\ out' = [out EXCEPT ![s] = EmptyBag]
    /\ logs' = [logs EXCEPT ![s] = EmptyBag]
    /\ calls' = [calls EXCEPT ![s] = [g \in G |-> 0]]
    /\ started' = [started EXCEPT ![s] = [g \in G |-> 0]]
    /\ late' = [late EXCEPT ![s] = FALSE]
    /\ status' = [status EXCEPT ![s] = 0]
    /\ prev' = [prev EXCEPT ![s] =
                  {g \in G : gpc[s][g] = "done" /\ ~loc[s][g].err}]
    /\ UNCHANGED process

\* One iteration of "for _, fn := range fns { go func() {...}() }"; after the
\* last one Collect blocks in wg.Wait().
GoStart(s) ==
    /\ cpc[s] = "loop"
    /\ idx[s] <= Len(fns)
    /\ gpc' = [gpc EXCEPT ![s][fns[idx[s]]] = "spawned"]
    /\ started' = [started EXCEPT ![s][fns[idx[s]]] = @ + 1]
    /\ idx' = [idx EXCEPT ![s] = @ + 1]
    /\ cpc' = [cpc EXCEPT ![s] = IF idx[s] = Len(fns) THEN "wait" ELSE "loop"]
    /\ UNCHANGED <<process, prev, wg, loc, out, logs, calls, late, status>>

\* A wait that gives up: Collect returns although a goroutine is not done.
CollectReturnTimeout(s) ==
    /\ cpc[s] = "wait"
    /\ cpc' = [cpc EXCEPT ![s] = "returned"]
    /\ UNCHANGED <<process, prev, idx, wg, gpc, loc, out, logs, calls,
                   started, late, status>>
\* wg.Wait() returns once the counter is zero, and Collect returns.
CollectReturn(s) ==
    /\ cpc[s] = "wait"
    /\ wg[s] = 0
    /\ cpc' = [cpc EXCEPT ![s] = "returned"]
    /\ UNCHANGED <<process, prev, idx, wg, gpc, loc, out, logs, calls,
                   started, late, status>>

\* The handler answers the request after Gather.
ServeHTTP(s) ==
    /\ cpc[s] = "returned"
    /\ status' = [status EXCEPT ![s] = HandlerStatus(out[s])]
    /\ cpc' = [cpc EXCEPT ![s] = "idle"]
    /\ UNCHANGED <<process, prev, idx, wg, gpc, loc, out, logs, calls,
                   started, late>>

\* A sub-collection issues its single upstream call and blocks in it.
IssueQuery(s, g) ==
    /\ gpc[s][g] = "spawned"
    /\ calls' = [calls EXCEPT ![s][g] = @ + 1]
    /\ gpc' = [gpc EXCEPT ![s][g] = "waiting"]
    /\ UNCHANGED <<process, prev, cpc, idx, wg, loc, out, logs, started,
                   late, status>>

\* ch <- m by a goroutine of scrape s.
Send(s, b) ==
    /\ out' = [out EXCEPT ![s] = @ (+) b]
    /\ late' = [late EXCEPT ![s] =
                  @ \/ (b # EmptyBag /\ cpc[s] \notin {"loop", "wait"})]

\* A return of the call that also writes a record when the query succeeded.
QueryReturnLogsSuccess(s, g, r, msg, errSends) ==
    /\ gpc[s][g] = "waiting"
    /\ loc' = [loc EXCEPT ![s][g] = r]
    /\ IF r.err
         THEN /\ logs' = [logs EXCEPT ![s] = @ (+) SetToBag({LogRecord("error", msg)})]
              /\ Send(s, errSends)
              /\ gpc' = [gpc EXCEPT ![s][g] = errReturn]
         ELSE /\ logs' = [logs EXCEPT ![s] = @ (+) SetToBag({LogRecord("debug", msg)})]
              /\ Send(s, EmptyBag)
              /\ gpc' = [gpc EXCEPT ![s][g] = "send1"]
    /\ UNCHANGED <<process, prev, cpc, idx, wg, calls, started, status>>
\* The call of a sub-collection returns r; on an error the sub-collection logs
\* and takes its error branch.
QueryReturn(s, g, r, msg, errSends) ==
    /\ gpc[s][g] = "waiting"
    /\ loc' = [loc EXCEPT ![s][g] = r]
    /\ IF r.err
         THEN /\ logs' = [logs EXCEPT ![s] = @ (+) SetToBag({LogRecord("error", msg)})]
              /\ Send(s, errSends)
              /\ gpc' = [gpc EXCEPT ![s][g] = errReturn]
         ELSE /\ logs' = logs
              /\ Send(s, EmptyBag)
              /\ gpc' = [gpc EXCEPT ![s][g] = "send1"]
    /\ UNCHANGED <<process, prev, cpc, idx, wg, calls, started, status>>

\* A send that is skipped once another sub-collection of the scrape has
\* failed, as under a shared cancellation.
SendStepCancelled(s, g, k, seq) ==
    /\ gpc[s][g] = IF k = 1 THEN "send1" ELSE IF k = 2 THEN "send2"
                   ELSE IF k = 3 THEN "send3" ELSE "send4"
    /\ IF \E h \in G \ {g} : loc[s][h].err
         THEN Send(s, EmptyBag)
         ELSE Send(s, SetToBag({seq[k]}))
    /\ gpc' = [gpc EXCEPT ![s][g] =
                 IF k = Len(seq) THEN "ret" ELSE IF k = 1 THEN "send2"
                 ELSE IF k = 2 THEN "send3" ELSE "send4"]
    /\ UNCHANGED <<process, prev, cpc, idx, wg, loc, logs, calls,
                   started, status>>
\* The k-th send of a sub-collection whose sends are seq.
SendStep(s, g, k, seq) ==
    /\ gpc[s][g] = IF k = 1 THEN "send1" ELSE IF k = 2 THEN "send2"
                   ELSE IF k = 3 THEN "send3" ELSE "send4"
    /\ Send(s, SetToBag({seq[k]}))
    /\ gpc' = [gpc EXCEPT ![s][g] =
                 IF k = Len(seq) THEN "ret" ELSE IF k = 1 THEN "send2"
                 ELSE IF k = 2 THEN "send3" ELSE "send4"]
    /\ UNCHANGED <<process, prev, cpc, idx, wg, loc, logs, calls,
                   started, status>>

\* The sends of sub-collection g in scrape s, from what its query returned.
SendsOf(s, g) ==
    IF g = "collectPortOpen"
      THEN <<MustNewConstMetric("portOpenDesc", BoolVal(loc[s][g].val))>>
    ELSE IF g = "collectTurtleMode"
      THEN <<MustNewConstMetric("turtleModeDesc", BoolVal(loc[s][g].val))>>
    ELSE statsSends(loc[s][g].val)

\* collectPortOpen: IsPortOpen(context.Background()), then one gauge.
collectPortOpen(s, bools) ==
    \/ IssueQuery(s, "collectPortOpen")
    \/ \E r \in {[err |-> TRUE, val |-> FALSE]} \cup
                {[err |-> FALSE, val |-> b] : b \in bools} :
          QueryReturn(s, "collectPortOpen", r, "failed to get peer port state",
                      portErrSends)
    \/ SendStep(s, "collectPortOpen", 1, SendsOf(s, "collectPortOpen"))

\* collectTurtleMode: GetSession(.., SessionFieldTurtleEnabled), then one gauge.
collectTurtleMode(s, bools) ==
    \/ IssueQuery(s, "collectTurtleMode")
    \/ \E r \in {[err |-> TRUE, val |-> FALSE]} \cup
                {[err |-> FALSE, val |-> b] : b \in bools} :
          QueryReturn(s, "collectTurtleMode", r, "failed to query session info",
                      turtleErrSends)
    \/ SendStep(s, "collectTurtleMode", 1, SendsOf(s, "collectTurtleMode"))

\* collectSessionStats: one GetSessionStats call, then four gauges.
collectSessionStats(s, stats) ==
    \/ IssueQuery(s, "collectSessionStats")
    \/ \E r \in {[err |-> TRUE, val |-> ZeroStats]} \cup
                {[err |-> FALSE, val |-> st] : st \in stats} :
          QueryReturn(s, "collectSessionStats", r,
                      "failed to query session statistics", statsErrSends)
    \/ \E k \in 1..4 :
          SendStep(s, "collectSessionStats", k, SendsOf(s, "collectSessionStats"))

\* wg.Done() of the goroutine, after fn(ch) has returned.
WgDone(s, g) ==
    /\ gpc[s][g] = "ret"
    /\ wg' = [wg EXCEPT ![s] = @ - 1]
    /\ gpc' = [gpc EXCEPT ![s][g] = "done"]
    /\ UNCHANGED <<process, prev, cpc, idx, loc, out, logs, calls,
                   started, late, status>>

\* The first scrape request a handler gets.
CollectOnce(s) == status[s] = 0 /\ Collect(s)

\* The steps of a scrape after Collect was called.
Steps(s, bools, stats) ==
    \/ GoStart(s)
    \/ collectPortOpen(s, bools)
    \/ collectTurtleMode(s, bools)
    \/ collectSessionStats(s, stats)
    \/ \E g \in G : WgDone(s, g)
    \/ CollectReturn(s)
    \/ ServeHTTP(s)

\* Every step of scrape s, with the upstream answers drawn from the given sets.
Scrape(s, bools, stats) == Collect(s) \/ Steps(s, bools, stats)

\* The steps of a handler that serves a single scrape.
OneScrape(s, bools, stats) == CollectOnce(s) \/ Steps(s, bools, stats)

\* One handler serving scrapes one after another, every upstream answer.
Next ==
    \/ \E newErr, regErr \in BOOLEAN :
          newHandler(newErr, NewTransmissionCollectorErr, regErr)
    \/ \E ok \in BOOLEAN : ListenAndServe(ok)
    \/ DescribeCall
    \/ DescribeSend
    \/ Scrape(1, BOOLEAN, StatsInputs)

Spec == Init /\ [][Next]_vars

\* NumScrapes handlers serving one scrape each at the same time.
NextConc ==
    \/ newHandler(FALSE, NewTransmissionCollectorErr, FALSE)
    \/ ListenAndServe(TRUE)
    \/ \E s \in Scrapes : OneScrape(s, {TRUE}, {OneStats})

ConcSpec == Init /\ [][NextConc]_vars

\* Two scrapes side by side, by handlers 1 and 2: two runs to compare.
NextPair ==
    \/ newHandler(FALSE, NewTransmissionCollectorErr, FALSE)
    \/ ListenAndServe(TRUE)
    \/ \E s \in {1, 2} : OneScrape(s, {TRUE}, {OneStats})

PairSpec == Init /\ [][NextPair]_vars

\* The scheduler runs every goroutine that can take a step, the upstream
\* answers every query, and requests keep being answered.
FairConcSpec ==
    ConcSpec /\ \A s \in Scrapes :
        /\ WF_vars(GoStart(s))
        /\ WF_vars(collectPortOpen(s, {TRUE}))
        /\ WF_vars(collectTurtleMode(s, {TRUE}))
        /\ WF_vars(collectSessionStats(s, {OneStats}))
        /\ WF_vars(\E g \in G : WgDone(s, g))
        /\ WF_vars(CollectReturn(s))
        /\ WF_vars(ServeHTTP(s))

\* One handler and an upstream that may leave a query unanswered for ever.
NextHang ==
    \/ newHandler(FALSE, NewTransmissionCollectorErr, FALSE)
    \/ ListenAndServe(TRUE)
    \/ Scrape(1, {TRUE}, {OneStats})

\* The scheduler runs every goroutine that can take a step and the registry
\* keeps receiving; nothing makes the upstream answer, and no query of the
\* collector carries a deadline (each is called with context.Background()).
HangSpec ==
    /\ Init /\ [][NextHang]_vars
    /\ WF_vars(GoStart(1))
    /\ \A g \in G :
          /\ WF_vars(IssueQuery(1, g))
          /\ WF_vars(\E k \in 1..4 : SendStep(1, g, k, SendsOf(1, g)))
          /\ WF_vars(WgDone(1, g))
    /\ WF_vars(CollectReturn(1))
    /\ WF_vars(ServeHTTP(1))

----------------------------------------------------------------------------
(* Vocabulary of the properties *)

\* Scrape s has run to the end: Collect has returned (and maybe was answered).
Completed(s) == cpc[s] = "returned" \/ (cpc[s] = "idle" /\ status[s] # 0)

\* Number of entries on the channel of scrape s for descriptor d that are
\* valid samples (v = TRUE) or invalid-markers (v = FALSE).
Count(s, d, v) ==
    LET S == {m \in BagToSet(out[s]) : m.desc = d /\ m.valid = v}
    IN  IF S = {} THEN 0 ELSE BagCardinality([m \in S |-> out[s][m]])

\* The query of sub-collection g failed / succeeded in scrape s.
Failed(s, g) == gpc[s][g] \in {"ret", "done"} /\ loc[s][g].err
Succeeded(s, g) == gpc[s][g] \in {"send1", "send2", "send3", "send4", "ret", "done"}
                   /\ ~loc[s][g].err

\* The descriptors each sub-collection is responsible for.
DescsOf(g) == IF g = "collectPortOpen" THEN {"portOpenDesc"}
              ELSE IF g = "collectTurtleMode" THEN {"turtleModeDesc"}
              ELSE {"activeTorrents", "pausedTorrents",
                    "downloadedBytesTotal", "uploadedBytesTotal"}

\* Every descriptor has exactly one entry, valid or not, on the channel of s.
CoveredOnce(s) == \A d \in Descs : Count(s, d, TRUE) + Count(s, d, FALSE) = 1

----------------------------------------------------------------------------
(* Properties *)

\* C1: Collect returns only after each of the three sub-collections has
\* finished, under every interleaving and every combination of outcomes, so
\* nothing is sent on the channel of a scrape after its Collect has returned.
C1_ReturnAfterAll ==
    \A s \in Scrapes :
        /\ Completed(s) => \A g \in G : gpc[s][g] = "done"
        /\ ~late[s]

C1_Witness ==
    /\ cpc[1] = "returned"
    /\ \A g \in G : gpc[1][g] = "done"
    /\ Failed(1, "collectTurtleMode")
    /\ Count(1, "uploadedBytesTotal", TRUE) = 1

\* C2: for every completed scrape and each of the 8 combinations of success
\* and failure of the three queries, the channel holds exactly one entry
\* (sample or invalid-marker) for each of the six descriptors.
C2_ExactlyOnePerDescriptor ==
    \A s \in Scrapes : Completed(s) => CoveredOnce(s)

\* C3: when every query of a scrape succeeds, Collect yields exactly one valid
\* sample per descriptor, six samples and no invalid-marker, and the port-open
\* and turtle-mode samples have a value in {0, 1}.
C3_AllSucceed ==
    \A s \in Scrapes :
        (Completed(s) /\ \A g \in G : Succeeded(s, g)) =>
            /\ \A d \in Descs : Count(s, d, TRUE) = 1 /\ Count(s, d, FALSE) = 0
            /\ BagCardinality(out[s]) = 6
            /\ \A m \in BagToSet(out[s]) :
                  m.desc \in {"portOpenDesc", "turtleModeDesc"} => m.val \in {0, 1}

C3_Witness ==
    /\ Completed(1)
    /\ \A g \in G : Succeeded(1, g)
    /\ loc[1]["collectPortOpen"].val
    /\ ~loc[1]["collectTurtleMode"].val
    /\ BagCardinality(out[1]) = 6

\* C4: if the port-reachability query fails, Collect still emits exactly one
\* valid sample for the port-open descriptor, with value 0, and no
\* invalid-marker for it.
C4_PortFailureDegrades ==
    \A s \in Scrapes :
        (Completed(s) /\ Failed(s, "collectPortOpen")) =>
            /\ Count(s, "portOpenDesc", TRUE) = 1
            /\ Count(s, "portOpenDesc", FALSE) = 0
            /\ \A m \in BagToSet(out[s]) : m.desc = "portOpenDesc" => m.val = 0

\* C5: if the turtle-mode query fails, Collect emits exactly one
\* invalid-marker and no valid sample for the turtle-mode descriptor, and
\* valid samples for the descriptors of the queries that succeeded.
C5_TurtleFailureMarked ==
    \A s \in Scrapes :
        (Completed(s) /\ Failed(s, "collectTurtleMode")) =>
            /\ Count(s, "turtleModeDesc", FALSE) = 1
            /\ Count(s, "turtleModeDesc", TRUE) = 0
            /\ \A g \in G \ {"collectTurtleMode"} :
                  Succeeded(s, g) => \A d \in DescsOf(g) : Count(s, d, TRUE) = 1

\* C6: if the session-stats query fails, Collect emits an invalid-marker and
\* no valid sample for each of the four dependent descriptors, and the port
\* and turtle-mode descriptors still get their valid samples.
C6_StatsFailureMarked ==
    \A s \in Scrapes :
        (Completed(s) /\ Failed(s, "collectSessionStats")) =>
            /\ \A d \in DescsOf("collectSessionStats") :
                  Count(s, d, FALSE) = 1 /\ Count(s, d, TRUE) = 0
            /\ \A g \in G \ {"collectSessionStats"} :
                  Succeeded(s, g) => \A d \in DescsOf(g) : Count(s, d, TRUE) = 1

\* C7: with scrapes running at the same time, every query eventually
\* returning and every consumer receiving, no scrape is partial (its channel
\* gets an entry for every descriptor, exactly once) and every Collect call
\* that was started eventually returns.
C7_ConcurrentScrapesComplete ==
    /\ [](\A s \in Scrapes : Completed(s) => CoveredOnce(s))
    /\ \A s \in Scrapes : (cpc[s] = "loop") ~> (cpc[s] = "returned")

C9_DescribeComplete ==
    handler = "installed" =>
        \A s \in Scrapes : \A m \in BagToSet(out[s]) : m.desc \in registered

\* C10: in every scrape each sub-collection is started exactly once and issues
\* exactly one upstream query, whether it succeeds or fails (no retry), and
\* the four session-statistics gauges come from one GetSessionStats call.
C10_OneQueryEach ==
    \A s \in Scrapes :
        /\ \A g \in G : calls[s][g] <= 1 /\ started[s][g] <= 1
        /\ Completed(s) => \A g \in G : calls[s][g] = 1 /\ started[s][g] = 1
        /\ (Completed(s) /\ Succeeded(s, "collectSessionStats")) =>
              /\ \A d \in DescsOf("collectSessionStats") : Count(s, d, TRUE) = 1
              /\ calls[s]["collectSessionStats"] = 1

C10_Witness ==
    /\ Completed(1)
    /\ Failed(1, "collectPortOpen")
    /\ Succeeded(1, "collectSessionStats")
    /\ calls[1]["collectPortOpen"] = 1
    /\ calls[1]["collectSessionStats"] = 1

\* The entries on the channel of scrape s that belong to sub-collection g.
EntriesOf(s, g) ==
    LET S == {m \in BagToSet(out[s]) : m.desc \in DescsOf(g)}
    IN  [m \in S |-> out[s][m]]

\* C11: no error of one sub-collection affects another: what a sub-collection
\* has emitted when it is done is the same in any two scrapes in which its own
\* query had the same outcome, whatever the other two queries did.
C11_SubCollectionsIndependent ==
    \A s, t \in Scrapes : \A g \in G :
        (gpc[s][g] = "done" /\ gpc[t][g] = "done" /\ loc[s][g] = loc[t][g])
        => EntriesOf(s, g) = EntriesOf(t, g)

C11_Witness ==
    /\ Completed(1) /\ Completed(2)
    /\ Succeeded(1, "collectPortOpen") /\ Succeeded(2, "collectPortOpen")
    /\ Failed(1, "collectTurtleMode") /\ Succeeded(2, "collectTurtleMode")
    /\ Succeeded(1, "collectSessionStats") /\ Failed(2, "collectSessionStats")
    /\ EntriesOf(1, "collectPortOpen") = EntriesOf(2, "collectPortOpen")
    /\ BagCardinality(EntriesOf(1, "collectPortOpen")) = 1

\* The samples sub-collection g builds from what its query returned in scrape s.
FreshSamples(s, g) ==
    IF g = "collectPortOpen"
      THEN {MustNewConstMetric("portOpenDesc", BoolVal(loc[s][g].val))}
    ELSE IF g = "collectTurtleMode"
      THEN {MustNewConstMetric("turtleModeDesc", BoolVal(loc[s][g].val))}
    ELSE {statsSends(loc[s][g].val)[k] : k \in 1..4}

\* C12: scrapes are stateless: after any earlier scrapes, every entry on the
\* channel of a scrape was built from a query that succeeded in this very
\* scrape, a completed scrape holds exactly the samples of its own successful
\* queries, and the fields of the Collector stay as they were constructed.
C12_Stateless ==
    /\ collector \in {NilCollector, NewTransmissionCollector}
    /\ handler = "installed" => collector = NewTransmissionCollector
    /\ \A s \in Scrapes :
          /\ \A m \in BagToSet(out[s]) :
                /\ CopiesIn(m, out[s]) = 1
                /\ \E g \in G : Succeeded(s, g) /\ m \in FreshSamples(s, g)
          /\ Completed(s) =>
                BagToSet(out[s]) =
                    UNION {FreshSamples(s, g) : g \in {h \in G : Succeeded(s, h)}}

C12_Witness ==
    /\ Completed(1)
    /\ prev[1] = G
    /\ Failed(1, "collectPortOpen")
    /\ Failed(1, "collectSessionStats")
    /\ Succeeded(1, "collectTurtleMode")
    /\ BagCardinality(out[1]) = 1

\* The message of the record a sub-collection writes about its query.
MsgOf(g) == IF g = "collectPortOpen" THEN "failed to get peer port state"
            ELSE IF g = "collectTurtleMode" THEN "failed to query session info"
            ELSE "failed to query session statistics"

\* The severity the design assigns to a failure of each query.
SeverityOf(g) == IF g = "collectPortOpen" THEN "warn" ELSE "error"

\* Number of records about the query of g in the log of scrape s.
LogCount(s, g) ==
    LET S == {l \in BagToSet(logs[s]) : l.msg = MsgOf(g)}
    IN  IF S = {} THEN 0 ELSE BagCardinality([l \in S |-> logs[s][l]])

\* C13: every failed query is logged exactly once in its scrape, a port
\* failure as a warning, a turtle-mode or session-stats failure as an error.
C13_FailuresLoggedAtSeverity ==
    \A s \in Scrapes : \A g \in G :
        (Completed(s) /\ Failed(s, g)) =>
            /\ LogCount(s, g) = 1
            /\ CopiesIn(LogRecord(SeverityOf(g), MsgOf(g)), logs[s]) = 1

\* C19: the collector does not log in normal operation: a sub-collection whose
\* query succeeded, or has not returned yet, has written no record, so a
\* scrape whose three queries succeed leaves the log empty.
C19_NoLogOnSuccess ==
    \A s \in Scrapes :
        /\ \A g \in G : ~Failed(s, g) => LogCount(s, g) = 0
        /\ \A l \in BagToSet(logs[s]) : \E g \in G : Failed(s, g) /\ l.msg = MsgOf(g)
        /\ (\A g \in G : Succeeded(s, g)) => logs[s] = EmptyBag

C19_Witness ==
    /\ Completed(1)
    /\ Succeeded(1, "collectPortOpen")
    /\ Succeeded(1, "collectSessionStats")
    /\ Failed(1, "collectTurtleMode")
    /\ BagCardinality(logs[1]) = 1
    /\ LogCount(1, "collectPortOpen") = 0

\* C14: the port-reachability sub-collection is bounded by its own timeout:
\* even if the upstream never answers the port query, the query ends and the
\* sub-collection completes.
C14_PortQueryBounded ==
    \A s \in Scrapes :
        (gpc[s]["collectPortOpen"] = "waiting") ~> (gpc[s]["collectPortOpen"] = "done")

\* C17: there is no cancellation across a scrape: while the turtle-mode or
\* session-stats query has not returned Collect has not returned, and if it
\* never returns Collect waits for ever, while the other sub-collections are
\* not held up: each comes to rest in its own query or done, and one that is
\* done after a successful query has its samples on the channel.
C17_NoCrossCancellation ==
    \A s \in Scrapes : \A g \in {"collectTurtleMode", "collectSessionStats"} :
        /\ [](gpc[s][g] = "waiting" => cpc[s] \in {"loop", "wait"})
        /\ <>[](gpc[s][g] = "waiting") =>
              /\ <>[](cpc[s] = "wait")
              /\ \A h \in G \ {g} : <>[](gpc[s][h] \in {"waiting", "done"})
        /\ [](\A h \in G \ {g} :
                (gpc[s][g] = "waiting" /\ gpc[s][h] = "done" /\ ~loc[s][h].err)
                => \A d \in DescsOf(h) : Count(s, d, TRUE) = 1)

C17_Witness ==
    /\ gpc[1]["collectTurtleMode"] = "waiting"
    /\ gpc[1]["collectPortOpen"] = "done"
    /\ gpc[1]["collectSessionStats"] = "done"
    /\ cpc[1] = "wait"
    /\ wg[1] = 1
    /\ BagCardinality(out[1]) = 5

\* C15: a construction-time failure is fatal at startup: when the client,
\* the collector or the registration fails, newHandler returns an error, no
\* handler is installed, and the process never serves: no scrape ever runs.
C15_ConstructionFailureFatal ==
    /\ handler = "failed" =>
          /\ proc = "panicked"
          /\ registered = {}
          /\ \A s \in Scrapes : cpc[s] = "idle" /\ status[s] = 0 /\ out[s] = EmptyBag
    /\ proc = "serving" => handler = "installed"
    /\ (\E s \in Scrapes : cpc[s] # "idle" \/ status[s] # 0) => handler = "installed"

C15_Witness ==
    /\ handler = "failed"
    /\ proc = "panicked"
    /\ collector = NewTransmissionCollector

\* C16: Describe is idempotent and free of side effects: every call, whatever
\* the scrapes and the upstream did, sends one after the other the descriptors
\* that were sent at registration and, when it has returned, has sent exactly
\* those; a step of a call issues no upstream query and changes nothing of the
\* Collector or of any scrape.
C16_DescribeIdempotent ==
    /\ [](handler = "installed" =>
            /\ dpc \in 0..Cardinality(registered)
            /\ {described[k] : k \in 1..Len(described)} \subseteq registered
            /\ Cardinality({described[k] : k \in 1..Len(described)}) = Len(described)
            /\ dpc # 0 => Len(described) = dpc - 1
            /\ dpc = 0 => {described[k] : k \in 1..Len(described)} = registered)
    /\ [][(handler = "installed" /\ (described' # described \/ dpc' # dpc)) =>
            UNCHANGED <<collector, registered, calls, loc, gpc, out, logs,
                        cpc, wg, status>>]_vars

C16_Witness ==
    /\ dpc = 2
    /\ described = <<"portOpenDesc">>
    /\ Completed(1)
    /\ Failed(1, "collectTurtleMode")
    /\ prev[1] = {"collectPortOpen"}

\* C18: on success the emitted values are what the upstream returned in this
\* scrape: port-open is 1 iff the port query returned true, else 0;
\* turtle-mode is 1 iff TurtleEnabled, else 0; the four statistics samples
\* carry ActiveTorrents, PausedTorrents, AllSessions.Downloaded and
\* AllSessions.Uploaded, each under its own descriptor.
C18_ValuesAsReturned ==
    \A s \in Scrapes :
        /\ (gpc[s]["collectPortOpen"] = "done" /\ ~loc[s]["collectPortOpen"].err) =>
              CopiesIn([desc |-> "portOpenDesc", valid |-> TRUE,
                        val |-> IF loc[s]["collectPortOpen"].val THEN 1 ELSE 0],
                       out[s]) = 1
              /\ Count(s, "portOpenDesc", TRUE) = 1
        /\ (gpc[s]["collectTurtleMode"] = "done" /\ ~loc[s]["collectTurtleMode"].err) =>
              CopiesIn([desc |-> "turtleModeDesc", valid |-> TRUE,
                        val |-> IF loc[s]["collectTurtleMode"].val THEN 1 ELSE 0],
                       out[s]) = 1
              /\ Count(s, "turtleModeDesc", TRUE) = 1
        /\ (gpc[s]["collectSessionStats"] = "done" /\ ~loc[s]["collectSessionStats"].err) =>
              LET st == loc[s]["collectSessionStats"].val
                  One(d, v) == /\ CopiesIn([desc |-> d, valid |-> TRUE, val |-> v],
                                           out[s]) = 1
                               /\ Count(s, d, TRUE) = 1
              IN  /\ One("activeTorrents", st.ActiveTorrents)
                  /\ One("pausedTorrents", st.PausedTorrents)
                  /\ One("downloadedBytesTotal", st.Downloaded)
                  /\ One("uploadedBytesTotal", st.Uploaded)

C18_Witness ==
    /\ Completed(1)
    /\ \A g \in G : Succeeded(1, g)
    /\ loc[1]["collectPortOpen"].val
    /\ ~loc[1]["collectTurtleMode"].val
    /\ loc[1]["collectSessionStats"].val.Downloaded = 0
    /\ loc[1]["collectSessionStats"].val.Uploaded = MaxBytes
    /\ loc[1]["collectSessionStats"].val.ActiveTorrents = MaxTorrents
    /\ loc[1]["collectSessionStats"].val.PausedTorrents = 0

====
